---- MODULE Spec2Model ----
(***************************************************************************)
(* A model of the conversational NPC mod of PoorCraft                      *)
(* (src/mods/ai_npc/main.py): the NPC store (ACTIVE_NPCS, PLAYER_NPCS,     *)
(* NPC_ID_COUNTER), the chat queue with its single background worker, the  *)
(* provider selection and the init()/shutdown() lifecycle.                 *)
(*                                                                         *)
(* Two threads are modelled: the engine's event thread, which runs init,   *)
(* shutdown, the join/leave handlers, create_npc and handle_chat one after *)
(* the other, and the worker thread running _worker_loop, cut at its       *)
(* blocking points (the stop test, CHAT_QUEUE.get, the provider's HTTP     *)
(* call).  shutdown() is cut at WORKER_THREAD.join(timeout=1.0), during    *)
(* which only the worker runs.                                             *)
(***************************************************************************)
EXTENDS Integers, Sequences, FiniteSets, TLC

(***************************************************************************)
(* Bounds of the model.                                                    *)
(***************************************************************************)
MaxPlayers == 2   \* player ids 1..MaxPlayers
MaxIds == 2       \* create_npc allocates ids 1..MaxIds, then is not called
MaxChats == 2     \* handle_chat is called at most MaxChats times
MaxCap == 2       \* configured max_npcs ranges over 1..MaxCap
MaxLimit == 2     \* configured conversation_history_limit: 0..MaxLimit
MaxThreads == 2   \* threads that call create_npc side by side
MaxIssued == 3    \* ids handed out to those threads
MaxScalar == 1    \* the scalars of a configuration: 0..MaxScalar

Players == 1..MaxPlayers
Senders == {MaxPlayers}   \* the player_id handle_chat is called with
NpcIds == 1..MaxIds

(***************************************************************************)
(* Python values.                                                          *)
(***************************************************************************)
None == "<None>"
EmptyDict == [k \in {} |-> None]

\* dict.get(key, default)
Get(d, key, default) == IF key \in DOMAIN d THEN d[key] ELSE default

\* d[key] = value
Put(d, key, value) ==
  [k \in DOMAIN d \cup {key} |-> IF k = key THEN value ELSE d[k]]

\* dict.pop(key, None) as the remaining dict
\* Faulty variant of Pop: the entry read and left in place
Pop_kept(d, key) == d

Pop(d, key) == [k \in DOMAIN d \ {key} |-> d[k]]

Max(a, b) == IF a >= b THEN a ELSE b

\* truthiness of an Optional[str]
Truthy(s) == s \notin {None, ""}

\* str.lower() on the strings the model uses
Lower(s) ==
  CASE s = "Gemini" -> "gemini"
    [] s = "OLLAMA" -> "ollama"
    [] s = "OpenAI" -> "openai"
    [] OTHER -> s

\* The elements of a sequence
Range(s) == {s[i] : i \in DOMAIN s}

\* seq[k:] for 0 <= k
DropFirst(s, k) == IF k >= Len(s) THEN <<>> ELSE SubSeq(s, k + 1, Len(s))

\* seq[-n:] as Python slices: -0 is 0, so seq[-0:] is the whole list; for
\* n > 0 the last n elements (all of them when n >= len); for n < 0 it is
\* seq[|n|:]
SliceFromNeg(s, n) ==
  IF n = 0 THEN s
  ELSE IF n > 0 THEN DropFirst(s, Max(Len(s) - n, 0))
  ELSE DropFirst(s, 0 - n)

(***************************************************************************)
(* State.                                                                  *)
(***************************************************************************)
VARIABLES
  env,             \* the process's surroundings: is_server(), the config
                   \* _load_config() returns
  phase,           \* where the event thread is in the mod's life cycle
  CONFIG_CACHE,
  ACTIVE_NPCS,     \* npc id -> NPCState
  PLAYER_NPCS,     \* player id -> list of npc ids
  NPC_ID_COUNTER,
  CHAT_QUEUE,      \* list of ChatJob
  worker,          \* WORKER_THREAD: its position and the job it holds
  WORKER_STOP,
  chatCalls,       \* number of handle_chat calls made so far
  spawnCalls,      \* ids spawn_npc was called with
  greetCalls,      \* ids the greeting npc_say was called with
  despawnCalls,    \* npc id -> number of despawn_npc calls
  said,            \* the worker's npc_say calls, in order
  dequeued,        \* the messages of the jobs CHAT_QUEUE.get returned, in order
  appended,        \* npc id -> every entry appended to its history, in order
  removed,         \* ids despawn_npc_for_player took off ACTIVE_NPCS
  afterRemoval,    \* the messages of the handle_chat calls made for an id
                   \* that despawn_npc_for_player had removed before
  lastOp,          \* the event thread's last call and what it returned
  sel,             \* the inputs and result of a select_provider call
  creators,        \* the threads that run create_npc side by side: where
                   \* each is and the id it holds
  NPC_ID_LOCK,     \* the thread that holds the lock, NoThread when it is free
  issued,          \* the ids read off NPC_ID_COUNTER, in the order of the reads
  cfg              \* the inputs and result of a _load_config call

vars == <<env, phase, CONFIG_CACHE, ACTIVE_NPCS, PLAYER_NPCS, NPC_ID_COUNTER,
          CHAT_QUEUE, worker, WORKER_STOP, chatCalls, spawnCalls, greetCalls,
          despawnCalls, said, dequeued, appended, removed, afterRemoval,
          lastOp, sel, cfg, creators, NPC_ID_LOCK, issued, cfg>>

storeVars == <<ACTIVE_NPCS, PLAYER_NPCS, NPC_ID_COUNTER, spawnCalls,
               greetCalls, despawnCalls, appended, removed>>
workerVars == <<CHAT_QUEUE, worker, WORKER_STOP, said, dequeued>>
idsVars == <<creators, NPC_ID_LOCK, issued>>

NoJob == [npc_id |-> 0, player_id |-> 0, message |-> 0]

\* class NPCState
NPCState(player_id, history) ==
  [player_id |-> player_id, conversation_history |-> history]

\* class ChatJob; the message of the n-th handle_chat call is n
ChatJob(npc_id, player_id, message) ==
  [npc_id |-> npc_id, player_id |-> player_id, message |-> message]

(***************************************************************************)
(* Settings read from CONFIG_CACHE, with the defaults of the .get calls.   *)
(***************************************************************************)
NpcSettings(config) == Get(config, "npc_settings", EmptyDict)

\* Faulty variant of Enabled: the enabled setting is not read
Enabled_always(config) == TRUE

Enabled(config) == Get(config, "enabled", TRUE)

AutoSpawnOnJoin(config) == Get(NpcSettings(config), "auto_spawn_on_join", TRUE)

\* Faulty variant of MaxPerPlayer: one NPC more than configured
MaxPerPlayer_one_more(config) ==
  Max(1, Get(NpcSettings(config), "npcs_per_player", 1)) + 1

MaxPerPlayer(config) == Max(1, Get(NpcSettings(config), "npcs_per_player", 1))

MaxNpcs(config) == Get(NpcSettings(config), "max_npcs", 10)

HistoryLimit(config) ==
  Get(NpcSettings(config), "conversation_history_limit", 5)

ActiveProvider(config) == Get(config, "active_provider", None)

(***************************************************************************)
(* Provider registry.                                                      *)
(***************************************************************************)
ProviderNames == {"ollama", "gemini", "openrouter", "openai"}

RECURSIVE FirstAvailable(_, _)
FirstAvailable(order, availability) ==
  IF order = <<>> THEN None
  ELSE IF Get(availability, Head(order), FALSE) THEN Head(order)
  ELSE FirstAvailable(Tail(order), availability)

\* Faulty variant of select_provider: the configured preference left out of the order
select_provider_fixed_order(config, availability) ==
  FirstAvailable(<<"ollama", "openai", "gemini", "openrouter">>, availability)

\* select_provider
select_provider(config, availability) ==
  LET ai == Get(config, "ai_provider", None)
      preferred == Lower(IF Truthy(ai) THEN ai ELSE "ollama")
      order == <<preferred, "ollama", "openai", "gemini", "openrouter">>
  IN FirstAvailable(order, availability)

\* Faulty variant of create_ai_provider: a default provider for no name
create_ai_provider_default(name) ==
  IF name = None THEN "ollama" ELSE Lower(name)

\* create_ai_provider: None for no name or an unknown one
create_ai_provider(name) ==
  IF name = None THEN None
  ELSE IF Lower(name) \in ProviderNames THEN Lower(name)
  ELSE None

\* _trim_history
trim_history(history, config) == SliceFromNeg(history, HistoryLimit(config))

\* generate_greeting's entry in the history
GreetingEntry == [player |-> 0, npc |-> "greeting"]

(***************************************************************************)
(* The surroundings: what is_server() answers and what _load_config()      *)
(* returns.  They are fixed for a run of the process.                      *)
(***************************************************************************)
NoId == 0   \* create_npc's "return None": no id (ids start at 1)

FileConfig(enabled, auto, perPlayer, cap, limit) ==
  [k \in {"enabled", "ai_provider", "npc_settings"} |->
     CASE k = "enabled" -> enabled
       [] k = "ai_provider" -> "Gemini"
       [] OTHER -> [j \in {"auto_spawn_on_join", "npcs_per_player", "max_npcs",
                           "conversation_history_limit"} |->
                      CASE j = "auto_spawn_on_join" -> auto
                        [] j = "npcs_per_player" -> perPlayer
                        [] j = "max_npcs" -> cap
                        [] OTHER -> limit]]

Env(is_server, config) == [is_server |-> is_server, config |-> config]

\* every max_npcs and conversation_history_limit on an enabled server with
\* the other settings at their defaults; then, at the largest of the two,
\* a client, a disabled mod, auto_spawn_on_join off, and every
\* npcs_per_player from 0 on
Envs ==
  {Env(TRUE, FileConfig(TRUE, TRUE, 1, cap, limit)) :
      cap \in 1..MaxCap, limit \in 0..MaxLimit}
  \cup {Env(FALSE, FileConfig(TRUE, TRUE, 1, MaxCap, MaxLimit)),
        Env(TRUE, FileConfig(FALSE, TRUE, 1, MaxCap, MaxLimit)),
        Env(TRUE, FileConfig(TRUE, FALSE, 1, MaxCap, MaxLimit))}
  \cup {Env(TRUE, FileConfig(TRUE, TRUE, perPlayer, MaxCap, MaxLimit)) :
          perPlayer \in 0..MaxCap}

\* _load_config, as far as the surroundings decide it
load_config == env.config

\* detect_ai_providers: ollama by a health check, the others by their key
HasKey(config, name) ==
  Truthy(Get(Get(config, name, EmptyDict), "api_key", None))

detect_ai_providers(config, ollamaUp) ==
  [n \in ProviderNames |-> IF n = "ollama" THEN ollamaUp ELSE HasKey(config, n)]

\* the threads that may be inside create_npc at the same time
Threads == 1..MaxThreads
NoThread == 0
Idle == [pc |-> "idle", player_id |-> 0, npc_id |-> NoId, counter |-> 0]

Op(op, arg, ret) ==
  [op |-> op, arg |-> arg, ret |-> ret]

(***************************************************************************)
(* Initial state: the module has just been imported.                       *)
(***************************************************************************)
ImportState(e) ==
  /\ env = e
  /\ phase = "loaded"
  /\ CONFIG_CACHE = EmptyDict
  /\ ACTIVE_NPCS = EmptyDict
  /\ PLAYER_NPCS = EmptyDict
  /\ NPC_ID_COUNTER = 1
  /\ CHAT_QUEUE = <<>>
  /\ worker = [pc |-> "dead", job |-> NoJob]
  /\ WORKER_STOP = FALSE
  /\ chatCalls = 0
  /\ spawnCalls = {}
  /\ greetCalls = {}
  /\ despawnCalls = [i \in NpcIds |-> 0]
  /\ said = <<>>
  /\ dequeued = <<>>
  /\ appended = EmptyDict
  /\ removed = {}
  /\ afterRemoval = {}
  /\ lastOp = Op("import", 0, 0)
  /\ creators = [t \in Threads |-> Idle]
  /\ NPC_ID_LOCK = NoThread
  /\ issued = <<>>

Init == \E e \in Envs : ImportState(e) /\ sel = [pc |-> "off"]
  /\ cfg = [pc |-> "off"]

(***************************************************************************)
(* Lifecycle.                                                              *)
(***************************************************************************)
\* Faulty variant of worker_alive: the running worker is not looked at
worker_alive_unchecked(w) == FALSE

\* WORKER_THREAD and WORKER_THREAD.is_alive()
worker_alive(w) == w.pc # "dead"

\* _start_worker_thread
start_worker_thread ==
  IF worker_alive(worker)
    THEN UNCHANGED <<worker, WORKER_STOP>>
    ELSE /\ WORKER_STOP' = FALSE
         /\ worker' = [pc |-> "top", job |-> NoJob]

\* init()
init ==
  /\ phase \in {"loaded", "stopped"}
  /\ phase' = "ready"
  /\ IF ~env.is_server
       THEN /\ UNCHANGED <<CONFIG_CACHE, worker, WORKER_STOP>>
            /\ lastOp' = Op("init", 0, 0)
       ELSE IF ~Enabled(load_config)
         THEN /\ CONFIG_CACHE' = load_config
              /\ UNCHANGED <<worker, WORKER_STOP>>
              /\ lastOp' = Op("init", 0, 0)
         ELSE \E ollamaUp \in BOOLEAN :
                LET chosen == select_provider(load_config,
                                detect_ai_providers(load_config, ollamaUp))
                IN /\ CONFIG_CACHE' =
                        IF chosen = None THEN load_config
                        ELSE Put(load_config, "active_provider", chosen)
                   /\ start_worker_thread
                   /\ lastOp' = Op("init", 0, 1)
  /\ UNCHANGED <<env, storeVars, CHAT_QUEUE, chatCalls, afterRemoval,
                 said, dequeued, sel, idsVars, cfg>>

\* shutdown(), up to WORKER_THREAD.join(timeout=1.0)
shutdown_set_stop ==
  /\ phase = "ready"
  /\ phase' = "joining"
  /\ WORKER_STOP' = TRUE
  /\ UNCHANGED <<env, CONFIG_CACHE, storeVars, CHAT_QUEUE, worker, chatCalls,
                 afterRemoval, said, dequeued, lastOp, sel, idsVars, cfg>>

\* Faulty variant of JoinReturns: a join without a timeout
JoinReturns_no_timeout(w, timedOut) == w.pc = "dead"

\* WORKER_THREAD.join(timeout=1.0) returns (and is skipped when there is no
\* live worker): the worker has ended, or the timeout has passed
JoinReturns(w, timedOut) == w.pc = "dead" \/ timedOut

\* shutdown(), from the return of join to the end
shutdown_cleanup ==
  /\ phase = "joining"
  /\ \E timedOut \in BOOLEAN : JoinReturns(worker, timedOut)
  /\ phase' = "stopped"
  /\ despawnCalls' = [i \in NpcIds |->
        IF i \in DOMAIN ACTIVE_NPCS THEN despawnCalls[i] + 1
        ELSE despawnCalls[i]]
  /\ ACTIVE_NPCS' = EmptyDict
  /\ PLAYER_NPCS' = EmptyDict
  /\ lastOp' = Op("shutdown", 0, 0)
  /\ UNCHANGED <<env, CONFIG_CACHE, NPC_ID_COUNTER, spawnCalls, greetCalls,
                 appended, removed, workerVars, chatCalls, afterRemoval, sel, idsVars, cfg>>

(***************************************************************************)
(* NPC store.                                                              *)
(***************************************************************************)
\* Faulty variant of CapReached: the cap tested with > in place of >=
CapReached_off_by_one(active, config) ==
  Cardinality(DOMAIN active) > MaxNpcs(config)

\* create_npc's test of the global cap
CapReached(active, config) == Cardinality(DOMAIN active) >= MaxNpcs(config)

\* what create_npc returns
create_npc_result ==
  IF CapReached(ACTIVE_NPCS, CONFIG_CACHE) THEN NoId ELSE NPC_ID_COUNTER

\* create_npc's effect on the store, PLAYER_NPCS aside
create_npc(player_id) ==
  IF CapReached(ACTIVE_NPCS, CONFIG_CACHE)
    THEN UNCHANGED <<ACTIVE_NPCS, NPC_ID_COUNTER, spawnCalls, greetCalls,
                     appended>>
    ELSE LET npc_id == NPC_ID_COUNTER IN
         /\ NPC_ID_COUNTER' = NPC_ID_COUNTER + 1
         /\ ACTIVE_NPCS' = Put(ACTIVE_NPCS, npc_id,
                               NPCState(player_id, <<GreetingEntry>>))
         /\ spawnCalls' = spawnCalls \cup {npc_id}
         /\ greetCalls' = greetCalls \cup {npc_id}
         /\ appended' = Put(appended, npc_id, <<GreetingEntry>>)

\* a direct create_npc(player_id, player_name) call
create_npc_call(player_id) ==
  /\ phase = "ready"
  /\ create_npc(player_id)
  /\ lastOp' = Op("create_npc", player_id, create_npc_result)
  /\ UNCHANGED <<env, phase, CONFIG_CACHE, PLAYER_NPCS, despawnCalls, removed,
                 workerVars, chatCalls, afterRemoval, sel, idsVars, cfg>>

\* _on_player_join
on_player_join(player_id) ==
  /\ phase = "ready"
  /\ IF ~AutoSpawnOnJoin(CONFIG_CACHE)
        \/ Len(Get(PLAYER_NPCS, player_id, <<>>)) >= MaxPerPlayer(CONFIG_CACHE)
       THEN /\ UNCHANGED <<ACTIVE_NPCS, PLAYER_NPCS, NPC_ID_COUNTER,
                           spawnCalls, greetCalls, appended>>
            /\ lastOp' = Op("join", player_id, NoId)
       ELSE /\ create_npc(player_id)
            /\ PLAYER_NPCS' =
                 IF create_npc_result # NoId
                   THEN Put(PLAYER_NPCS, player_id,
                            Append(Get(PLAYER_NPCS, player_id, <<>>),
                                   create_npc_result))
                   ELSE PLAYER_NPCS
            /\ lastOp' = Op("join", player_id, create_npc_result)
  /\ UNCHANGED <<env, phase, CONFIG_CACHE, despawnCalls, removed, workerVars,
                 chatCalls, afterRemoval, sel, idsVars, cfg>>

\* how often id occurs in a list of ids
Count(ids, id) == Cardinality({i \in DOMAIN ids : ids[i] = id})

\* despawn_npc_for_player, called by _on_player_leave
despawn_npc_for_player(player_id) ==
  LET npc_ids == Get(PLAYER_NPCS, player_id, <<>>) IN
  /\ phase = "ready"
  /\ PLAYER_NPCS' = Pop(PLAYER_NPCS, player_id)
  /\ ACTIVE_NPCS' = [i \in DOMAIN ACTIVE_NPCS \ Range(npc_ids) |->
                       ACTIVE_NPCS[i]]
  /\ despawnCalls' = [i \in NpcIds |-> despawnCalls[i] + Count(npc_ids, i)]
  /\ removed' = removed \cup (Range(npc_ids) \cap DOMAIN ACTIVE_NPCS)
  /\ lastOp' = Op("leave", player_id, Len(npc_ids))
  /\ UNCHANGED <<env, phase, CONFIG_CACHE, NPC_ID_COUNTER, spawnCalls,
                 greetCalls, appended, workerVars, chatCalls, afterRemoval, sel, idsVars, cfg>>

(***************************************************************************)
(* Chat dispatch.                                                          *)
(***************************************************************************)
\* Faulty variant of Tracked: no test of the id at all
Tracked_always(npc_id, active) == TRUE

\* Faulty variant of Tracked: the id tested against the ids ever created
Tracked_ever(npc_id, active) == npc_id \in spawnCalls

\* handle_chat's test: npc_id in ACTIVE_NPCS
Tracked(npc_id, active) == npc_id \in DOMAIN active

\* Faulty variant of queue_put_returns: a queue made with maxsize=1
queue_put_returns_bounded(q) == Len(q) < 1

\* CHAT_QUEUE.put(job) returns: the queue was made with no maxsize, so put
\* never waits for room
queue_put_returns(q) == TRUE

\* handle_chat
handle_chat(npc_id, player_id) ==
  /\ phase = "ready"
  /\ chatCalls' = chatCalls + 1
  /\ afterRemoval' = IF npc_id \in removed
                       THEN afterRemoval \cup {chatCalls + 1}
                       ELSE afterRemoval
  /\ IF ~Tracked(npc_id, ACTIVE_NPCS)
       THEN /\ UNCHANGED CHAT_QUEUE
            /\ lastOp' = Op("handle_chat", npc_id, 0)
       ELSE /\ queue_put_returns(CHAT_QUEUE)
            /\ CHAT_QUEUE' =
                 Append(CHAT_QUEUE, ChatJob(npc_id, player_id, chatCalls + 1))
            /\ lastOp' = Op("handle_chat", npc_id, 1)
  /\ UNCHANGED <<env, phase, CONFIG_CACHE, storeVars, worker, WORKER_STOP,
                 said, dequeued, sel, idsVars, cfg>>

\* _worker_loop: while not WORKER_STOP.is_set()
worker_check_stop ==
  /\ worker.pc = "top"
  /\ worker' = [worker EXCEPT !.pc = IF WORKER_STOP THEN "dead" ELSE "wait"]
  /\ UNCHANGED <<env, phase, CONFIG_CACHE, storeVars, CHAT_QUEUE, WORKER_STOP,
                 chatCalls, afterRemoval, said, dequeued, lastOp, sel, idsVars, cfg>>

\* Faulty variant of queue_get_times_out: a get without a timeout
queue_get_blocking(q) == FALSE

\* CHAT_QUEUE.get(timeout=0.25) gives up on a queue that stays empty
queue_get_times_out(q) == q = <<>>

\* _worker_loop: CHAT_QUEUE.get(timeout=0.25) raises queue.Empty
worker_get_empty ==
  /\ worker.pc = "wait"
  /\ queue_get_times_out(CHAT_QUEUE)
  /\ worker' = [worker EXCEPT !.pc = "top"]
  /\ UNCHANGED <<env, phase, CONFIG_CACHE, storeVars, CHAT_QUEUE, WORKER_STOP,
                 chatCalls, afterRemoval, said, dequeued, lastOp, sel, idsVars, cfg>>

\* Faulty variant of npc_state_found: the worker does not look the NPC up again
npc_state_found_unchecked(npc_id, active) == TRUE

\* _worker_loop: npc_state = ACTIVE_NPCS.get(job.npc_id) is not None
npc_state_found(npc_id, active) == npc_id \in DOMAIN active

\* Faulty variant of queue_get: the job is read and left on the queue
queue_get_peek(q) == [job |-> Head(q), rest |-> q]

\* Faulty variant of queue_get: a queue that hands out the newest job first
queue_get_lifo(q) == [job |-> q[Len(q)], rest |-> SubSeq(q, 1, Len(q) - 1)]

\* CHAT_QUEUE.get on a queue that is not empty: the job it returns and the
\* queue it leaves (queue.Queue is first in, first out)
queue_get(q) == [job |-> Head(q), rest |-> Tail(q)]

\* an npc_say call of the worker
Line(job, text) ==
  [npc_id |-> job.npc_id, message |-> job.message, text |-> text,
   tracked |-> job.npc_id \in DOMAIN ACTIVE_NPCS]

\* _worker_loop: CHAT_QUEUE.get returns a job; up to the provider's call
worker_get_job ==
  /\ worker.pc = "wait"
  /\ CHAT_QUEUE # <<>>
  /\ LET job == queue_get(CHAT_QUEUE).job IN
     /\ CHAT_QUEUE' = queue_get(CHAT_QUEUE).rest
     /\ dequeued' = Append(dequeued, job.message)
     /\ IF ~npc_state_found(job.npc_id, ACTIVE_NPCS)
          THEN /\ worker' = [pc |-> "top", job |-> NoJob]
               /\ UNCHANGED said
          ELSE IF create_ai_provider(ActiveProvider(CONFIG_CACHE)) = None
            THEN /\ said' = Append(said, Line(job, "quiet"))
                 /\ worker' = [pc |-> "top", job |-> NoJob]
            ELSE /\ worker' = [pc |-> "call", job |-> job]
                 /\ UNCHANGED said
  /\ UNCHANGED <<env, phase, CONFIG_CACHE, storeVars, WORKER_STOP, chatCalls,
                 afterRemoval, lastOp, sel, idsVars, cfg>>

\* what provider.generate_response returns: a reply, an empty reply, or
\* None (a timeout, a transport error, an HTTP error status, a reply
\* without the expected field)
Responses == {"reply", "", None}

\* Faulty variant of ResponseOk: the reply tested with "is not None"
ResponseOk_not_none(response) == response # None

\* _worker_loop's test of the reply: if response
ResponseOk(response) == Truthy(response)

\* _worker_loop: the provider's generate_response returns; to the loop's top
\* Faulty variant of config_after_call: another provider is selected after
\* a failed call
config_after_call_reselect(config, response) ==
  IF Truthy(response) THEN config ELSE Put(config, "active_provider", "openai")

\* what the return of generate_response does to CONFIG_CACHE: neither branch
\* of `if response:` writes it
config_after_call(config, response) == config

worker_call_return(response) ==
  /\ worker.pc = "call"
  /\ LET job == worker.job
         entry == [player |-> job.message, npc |-> response]
     IN IF ResponseOk(response)
          THEN /\ ACTIVE_NPCS' =
                    IF job.npc_id \in DOMAIN ACTIVE_NPCS
                      THEN [ACTIVE_NPCS EXCEPT
                              ![job.npc_id].conversation_history =
                                 trim_history(Append(@, entry), CONFIG_CACHE)]
                      ELSE ACTIVE_NPCS
               /\ appended' = [appended EXCEPT ![job.npc_id] = Append(@, entry)]
               /\ said' = Append(said, Line(job, "reply"))
          ELSE /\ said' = Append(said, Line(job, "froze"))
               /\ UNCHANGED <<ACTIVE_NPCS, appended>>
  /\ worker' = [pc |-> "top", job |-> NoJob]
  /\ CONFIG_CACHE' = config_after_call(CONFIG_CACHE, response)
  /\ UNCHANGED <<env, phase, PLAYER_NPCS, NPC_ID_COUNTER,
                 spawnCalls, greetCalls, despawnCalls, removed, CHAT_QUEUE,
                 WORKER_STOP, chatCalls, afterRemoval, dequeued, lastOp, sel, idsVars, cfg>>

(***************************************************************************)
(* The system.                                                             *)
(***************************************************************************)
\* The bounds: ids are allocated up to MaxIds, handle_chat is called up to
\* MaxChats times
IdsLeft == NPC_ID_COUNTER' = NPC_ID_COUNTER \/ NPC_ID_COUNTER <= MaxIds
ChatsLeft == chatCalls < MaxChats

Next ==
  \/ init
  \/ shutdown_set_stop
  \/ shutdown_cleanup
  \/ \E p \in Players : on_player_join(p) /\ IdsLeft
  \/ \E p \in Players : create_npc_call(p) /\ IdsLeft
  \/ \E p \in Players : despawn_npc_for_player(p)
  \/ \E n \in NpcIds, p \in Senders : ChatsLeft /\ handle_chat(n, p)
  \/ worker_check_stop
  \/ worker_get_empty
  \/ worker_get_job
  \/ \E r \in Responses : worker_call_return(r)

Spec == Init /\ [][Next]_vars

\* The worker thread is scheduled, its timed get comes back, and a provider
\* call it has made returns (every provider call is made with a timeout).
WorkerRuns ==
  /\ WF_vars(worker_check_stop)
  /\ WF_vars(worker_get_empty)
  /\ WF_vars(worker_get_job)
  /\ WF_vars(\E r \in Responses : worker_call_return(r))

LiveEnv == Env(TRUE, FileConfig(TRUE, TRUE, 1, MaxCap, MaxLimit))

LiveInit == ImportState(LiveEnv) /\ sel = [pc |-> "off"]
  /\ cfg = [pc |-> "off"]

SpecLive == LiveInit /\ [][Next]_vars /\ WorkerRuns

(***************************************************************************)
(* select_provider on its own: the configured ai_provider (absent, None,   *)
(* empty, a provider's name in some case, an unknown name) and the         *)
(* availability map detect_ai_providers returns.                           *)
(***************************************************************************)
PreferredInputs ==
  {None, "", "ollama", "gemini", "openrouter", "openai", "Gemini", "OLLAMA",
   "OpenAI", "bogus"}

SelectConfigs ==
  {EmptyDict} \cup {[k \in {"ai_provider"} |-> v] : v \in PreferredInputs}

SelectInit ==
  /\ \E e \in Envs : ImportState(e) /\ HistoryLimit(e.config) = MaxLimit
                     /\ MaxNpcs(e.config) = MaxCap
  /\ \E c \in SelectConfigs, a \in [ProviderNames -> BOOLEAN] :
       sel = [pc |-> "in", config |-> c, availability |-> a, result |-> None]
  /\ cfg = [pc |-> "off"]

select_step ==
  /\ sel.pc = "in"
  /\ sel' = [sel EXCEPT !.pc = "out",
                        !.result = select_provider(sel.config, sel.availability)]
  /\ UNCHANGED <<env, phase, CONFIG_CACHE, storeVars, workerVars, chatCalls,
                 afterRemoval, lastOp, idsVars, cfg>>

SpecSelect == SelectInit /\ [][select_step]_vars

(***************************************************************************)
(* _on_player_join calls that run side by side on several threads, each    *)
(* cut at every access to the shared state: the tests of the caps, the     *)
(* lock, the read of NPC_ID_COUNTER, the load and the store of its         *)
(* increment, the release, the insertion in ACTIVE_NPCS, the entry in      *)
(* PLAYER_NPCS.                                                            *)
(***************************************************************************)
At(t, pc) == creators[t].pc = pc

Goto(t, pc) == creators' = [creators EXCEPT ![t].pc = pc]

\* _on_player_join up to create_npc's test of max_npcs
create_npc_enter(t, player_id) ==
  /\ phase = "ready"
  /\ At(t, "idle")
  /\ AutoSpawnOnJoin(CONFIG_CACHE)
  /\ Len(Get(PLAYER_NPCS, player_id, <<>>)) < MaxPerPlayer(CONFIG_CACHE)
  /\ ~CapReached(ACTIVE_NPCS, CONFIG_CACHE)
  /\ creators' = [creators EXCEPT ![t] = [Idle EXCEPT !.pc = "lock",
                                                      !.player_id = player_id]]
  /\ UNCHANGED <<env, phase, CONFIG_CACHE, storeVars, workerVars, chatCalls,
                 afterRemoval, lastOp, sel, cfg, NPC_ID_LOCK, issued>>

\* Faulty variant of lock_free: create_npc without the lock
lock_free_unguarded(lock) == TRUE

\* with NPC_ID_LOCK: the lock can be taken when no thread holds it
lock_free(lock) == lock = NoThread

create_npc_acquire(t) ==
  /\ At(t, "lock")
  /\ lock_free(NPC_ID_LOCK)
  /\ NPC_ID_LOCK' = t
  /\ Goto(t, "read")
  /\ UNCHANGED <<env, phase, CONFIG_CACHE, storeVars, workerVars, chatCalls,
                 afterRemoval, lastOp, sel, cfg, issued>>

\* npc_id = NPC_ID_COUNTER
create_npc_read(t) ==
  /\ At(t, "read")
  /\ creators' = [creators EXCEPT ![t].pc = "load",
                                  ![t].npc_id = NPC_ID_COUNTER]
  /\ issued' = Append(issued, NPC_ID_COUNTER)
  /\ UNCHANGED <<env, phase, CONFIG_CACHE, storeVars, workerVars, chatCalls,
                 afterRemoval, lastOp, sel, cfg, NPC_ID_LOCK>>

\* NPC_ID_COUNTER += 1, the load
create_npc_load(t) ==
  /\ At(t, "load")
  /\ creators' = [creators EXCEPT ![t].pc = "store",
                                  ![t].counter = NPC_ID_COUNTER]
  /\ UNCHANGED <<env, phase, CONFIG_CACHE, storeVars, workerVars, chatCalls,
                 afterRemoval, lastOp, sel, cfg, NPC_ID_LOCK, issued>>

\* NPC_ID_COUNTER += 1, the store
create_npc_store(t) ==
  /\ At(t, "store")
  /\ NPC_ID_COUNTER' = creators[t].counter + 1
  /\ Goto(t, "release")
  /\ UNCHANGED <<env, phase, CONFIG_CACHE, ACTIVE_NPCS, PLAYER_NPCS,
                 spawnCalls, greetCalls, despawnCalls, appended, removed,
                 workerVars, chatCalls, afterRemoval, lastOp, sel, cfg,
                 NPC_ID_LOCK, issued>>

\* the end of the with block
create_npc_release(t) ==
  /\ At(t, "release")
  /\ NPC_ID_LOCK' = NoThread
  /\ Goto(t, "insert")
  /\ UNCHANGED <<env, phase, CONFIG_CACHE, storeVars, workerVars, chatCalls,
                 afterRemoval, lastOp, sel, cfg, issued>>

\* ACTIVE_NPCS[npc_id] = state, spawn_npc, the greeting
create_npc_insert(t) ==
  LET npc_id == creators[t].npc_id IN
  /\ At(t, "insert")
  /\ ACTIVE_NPCS' = Put(ACTIVE_NPCS, npc_id,
                        NPCState(creators[t].player_id, <<GreetingEntry>>))
  /\ spawnCalls' = spawnCalls \cup {npc_id}
  /\ greetCalls' = greetCalls \cup {npc_id}
  /\ appended' = Put(appended, npc_id, <<GreetingEntry>>)
  /\ Goto(t, "index")
  /\ UNCHANGED <<env, phase, CONFIG_CACHE, PLAYER_NPCS, NPC_ID_COUNTER,
                 despawnCalls, removed, workerVars, chatCalls, afterRemoval,
                 lastOp, sel, cfg, NPC_ID_LOCK, issued>>

\* _on_player_join: PLAYER_NPCS.setdefault(player_id, []).append(npc_id)
join_index(t) ==
  LET player_id == creators[t].player_id IN
  /\ At(t, "index")
  /\ PLAYER_NPCS' = Put(PLAYER_NPCS, player_id,
                        Append(Get(PLAYER_NPCS, player_id, <<>>),
                               creators[t].npc_id))
  /\ creators' = [creators EXCEPT ![t] = [Idle EXCEPT !.npc_id =
                                                        creators[t].npc_id]]
  /\ UNCHANGED <<env, phase, CONFIG_CACHE, ACTIVE_NPCS, NPC_ID_COUNTER,
                 spawnCalls, greetCalls, despawnCalls, appended, removed,
                 workerVars, chatCalls, afterRemoval, lastOp, sel, cfg,
                 NPC_ID_LOCK, issued>>

\* ids are handed out up to MaxIssued
EntriesLeft ==
  Len(issued) + Cardinality({t \in Threads : creators[t].pc \in {"lock", "read"}})
    < MaxIssued

IdsEnv == Env(TRUE, FileConfig(TRUE, TRUE, MaxCap, MaxCap, MaxLimit))

IdsInit == ImportState(IdsEnv) /\ sel = [pc |-> "off"]
  /\ cfg = [pc |-> "off"]

IdsNext ==
  \/ init
  \/ shutdown_set_stop
  \/ shutdown_cleanup
  \/ \E p \in Players : despawn_npc_for_player(p)
  \/ \E t \in Threads, p \in Players : EntriesLeft /\ create_npc_enter(t, p)
  \/ \E t \in Threads : create_npc_acquire(t)
  \/ \E t \in Threads : create_npc_read(t)
  \/ \E t \in Threads : create_npc_load(t)
  \/ \E t \in Threads : create_npc_store(t)
  \/ \E t \in Threads : create_npc_release(t)
  \/ \E t \in Threads : create_npc_insert(t)
  \/ \E t \in Threads : join_index(t)

SpecIds == IdsInit /\ [][IdsNext]_vars

(***************************************************************************)
(* shutdown() running beside those join calls: its end is cut between the  *)
(* despawn loop over list(ACTIVE_NPCS.keys()) and the two clear() calls.   *)
(***************************************************************************)
\* shutdown(): for npc_id in list(ACTIVE_NPCS.keys()): despawn_npc(npc_id)
shutdown_despawn_all ==
  /\ phase = "joining"
  /\ \E timedOut \in BOOLEAN : JoinReturns(worker, timedOut)
  /\ phase' = "clearing"
  /\ despawnCalls' = [i \in NpcIds |->
        IF i \in DOMAIN ACTIVE_NPCS THEN despawnCalls[i] + 1
        ELSE despawnCalls[i]]
  /\ UNCHANGED <<env, CONFIG_CACHE, ACTIVE_NPCS, PLAYER_NPCS, NPC_ID_COUNTER,
                 spawnCalls, greetCalls, appended, removed, workerVars,
                 chatCalls, afterRemoval, lastOp, sel, idsVars, cfg>>

\* shutdown(): ACTIVE_NPCS.clear(); PLAYER_NPCS.clear()
shutdown_clear ==
  /\ phase = "clearing"
  /\ phase' = "stopped"
  /\ ACTIVE_NPCS' = EmptyDict
  /\ PLAYER_NPCS' = EmptyDict
  /\ lastOp' = Op("shutdown", 0, 0)
  /\ UNCHANGED <<env, CONFIG_CACHE, NPC_ID_COUNTER, spawnCalls, greetCalls,
                 despawnCalls, appended, removed, workerVars, chatCalls,
                 afterRemoval, sel, idsVars, cfg>>

\* ids are handed out up to MaxIds, the ids despawnCalls counts
RaceEntriesLeft ==
  Len(issued) + Cardinality({t \in Threads : creators[t].pc \in {"lock", "read"}})
    < MaxIds

RaceNext ==
  \/ init
  \/ shutdown_set_stop
  \/ shutdown_despawn_all
  \/ shutdown_clear
  \/ \E p \in Players : despawn_npc_for_player(p)
  \/ \E t \in Threads, p \in Players : RaceEntriesLeft /\ create_npc_enter(t, p)
  \/ \E t \in Threads : create_npc_acquire(t)
  \/ \E t \in Threads : create_npc_read(t)
  \/ \E t \in Threads : create_npc_load(t)
  \/ \E t \in Threads : create_npc_store(t)
  \/ \E t \in Threads : create_npc_release(t)
  \/ \E t \in Threads : create_npc_insert(t)
  \/ \E t \in Threads : join_index(t)

SpecRace == IdsInit /\ [][RaceNext]_vars

(***************************************************************************)
(* Configuration resolution: _load_config and _merge_dict of ai_npc, and   *)
(* _load_config and _deep_merge of skin_generator, on JSON values.  A JSON *)
(* value is a scalar or an object; "group" stands for a nested group of    *)
(* settings (npc_settings, block_patterns).                                *)
(***************************************************************************)
Scalar(x) == [kind |-> "scalar", v |-> x]
Dict(items) == [kind |-> "dict", items |-> items]
IsDict(value) == value.kind = "dict"

\* no config.json next to the module
NoFile == [kind |-> "absent"]
\* a config.json that json.loads rejects
Malformed == [kind |-> "malformed"]
\* an exception on its way out of a call
Raised == [kind |-> "raised"]

\* Faulty variant of merge_dict: dict.update, nested groups replaced whole
merge_dict_shallow(target, override) ==
  [k \in DOMAIN target \cup DOMAIN override |->
     IF k \in DOMAIN override THEN override[k] ELSE target[k]]

\* _merge_dict / _deep_merge, on the items of two objects
RECURSIVE merge_dict(_, _)
merge_dict(target, override) ==
  [k \in DOMAIN target \cup DOMAIN override |->
     IF k \notin DOMAIN override THEN target[k]
     ELSE IF IsDict(override[k]) /\ k \in DOMAIN target /\ IsDict(target[k])
       THEN Dict(merge_dict(target[k].items, override[k].items))
     ELSE override[k]]

\* json.loads(config_path.read_text()) and the merge of what it returns:
\* json.loads raises on malformed text, and a JSON value that is no object
\* has no items()
merge_file(config, file) ==
  IF file = Malformed \/ ~IsDict(file) THEN Raised
  ELSE Dict(merge_dict(config.items, file.items))

\* Faulty variant of try_merge_file: the exception is not caught
try_merge_file_unguarded(config, file) == merge_file(config, file)

\* try: ... except Exception: log(...)
try_merge_file(config, file) ==
  IF merge_file(config, file) = Raised THEN config ELSE merge_file(config, file)

\* _load_config of ai_npc: get_mod_config("ai_npc") or {}, then config.json
ai_npc_load_config(engine, file) ==
  IF file = NoFile THEN engine ELSE try_merge_file(engine, file)

\* DEFAULT_CONFIG of skin_generator, one scalar and one nested group of it
DEFAULT_CONFIG ==
  Dict([k \in {"enabled", "group"} |->
          IF k = "enabled" THEN Scalar(1)
          ELSE Dict([j \in {"x", "y"} |-> Scalar(1)])])

\* _load_config of skin_generator
skin_load_config(engine, file) ==
  LET loaded == Dict(merge_dict(DEFAULT_CONFIG.items, engine.items))
  IN IF file = NoFile THEN loaded ELSE try_merge_file(loaded, file)

\* the JSON objects of the model: any of the keys, a scalar or a group under
\* each
Leaves == {Scalar(v) : v \in 0..MaxScalar}
FunsOver(keys, values) == UNION {[ks -> values] : ks \in SUBSET keys}
Groups == {Dict(f) : f \in FunsOver({"x", "y"}, Leaves)}
Objects == {Dict(f) : f \in FunsOver({"enabled", "group"}, Leaves \cup Groups)}
\* what config.json can be: absent, malformed, a JSON scalar, an object
Files == {NoFile, Malformed} \cup Leaves \cup Objects

\* cfg.base is what _load_config holds before it looks at config.json
ConfigInit ==
  /\ ImportState(LiveEnv)
  /\ sel = [pc |-> "off"]
  /\ \E engine \in Objects, file \in Files :
       cfg = [pc |-> "in", engine |-> engine, file |-> file,
              base |-> NoFile, result |-> NoFile]

ai_npc_load_step ==
  /\ cfg.pc = "in"
  /\ cfg' = [cfg EXCEPT !.pc = "ai_npc",
                        !.base = cfg.engine,
                        !.result = ai_npc_load_config(cfg.engine, cfg.file)]
  /\ UNCHANGED <<env, phase, CONFIG_CACHE, storeVars, workerVars, chatCalls,
                 afterRemoval, lastOp, sel, idsVars>>

skin_load_step ==
  /\ cfg.pc = "in"
  /\ cfg' = [cfg EXCEPT !.pc = "skin_generator",
                        !.base = skin_load_config(cfg.engine, NoFile),
                        !.result = skin_load_config(cfg.engine, cfg.file)]
  /\ UNCHANGED <<env, phase, CONFIG_CACHE, storeVars, workerVars, chatCalls,
                 afterRemoval, lastOp, sel, idsVars>>

SpecConfig == ConfigInit /\ [][ai_npc_load_step \/ skin_load_step]_vars

(***************************************************************************)
(* Properties.                                                             *)
(***************************************************************************)
Increasing(s) == \A i, j \in DOMAIN s : i < j => s[i] < s[j]

SaidMessages == [i \in DOMAIN said |-> said[i].message]

QueuedMessages == {CHAT_QUEUE[i].message : i \in DOMAIN CHAT_QUEUE}

History(id) == ACTIVE_NPCS[id].conversation_history

\* the last n elements of s, all of s when it has fewer
LastN(s, n) == SubSeq(s, Max(Len(s) - n, 0) + 1, Len(s))

\* C1: the worker takes the jobs off the queue, and emits their lines, in
\* the order handle_chat enqueued them (messages are numbered in the order
\* of the calls): the dequeued messages increase, the messages of the lines
\* said increase and are dequeued ones, and no job still queued is older
\* than a dequeued one.
C1_FifoOrder ==
  /\ Increasing(dequeued)
  /\ Increasing(SaidMessages)
  /\ \A i \in DOMAIN said : said[i].message \in Range(dequeued)
  /\ \A m \in QueuedMessages : \A k \in DOMAIN dequeued : dequeued[k] < m

C1_Witness ==
  /\ Len(dequeued) >= 2
  /\ Len(said) >= 2
  /\ said[1].text = "froze"
  /\ said[2].text = "reply"

\* C2: the history of every tracked NPC is at most as long as the
\* configured conversation_history_limit.
C2_HistoryWithinLimit ==
  \A id \in DOMAIN ACTIVE_NPCS :
    Len(History(id)) <= HistoryLimit(CONFIG_CACHE)

\* C3: once a turn has succeeded for a tracked NPC, its history is the last
\* `limit` entries, in order, of the entries ever appended to it.
C3_HistoryIsLastLimit ==
  \A id \in DOMAIN ACTIVE_NPCS :
    Len(appended[id]) >= 2 =>
      History(id) = LastN(appended[id], HistoryLimit(CONFIG_CACHE))

C4_CapInvariant == Cardinality(DOMAIN ACTIVE_NPCS) <= MaxNpcs(CONFIG_CACHE)

C4_RejectedChangesNothing ==
  (/\ lastOp' # lastOp
   /\ lastOp'.op \in {"create_npc", "join"}
   /\ lastOp'.ret = NoId)
  => UNCHANGED <<ACTIVE_NPCS, PLAYER_NPCS, NPC_ID_COUNTER, spawnCalls,
                 greetCalls, appended>>

\* C4: the number of tracked NPCs never exceeds max_npcs, and a create_npc
\* call that returns no id (from _on_player_join too) changes nothing of
\* the store: no id is consumed, no record added, no spawn call and no
\* greeting made.
C4_GlobalCap == [] C4_CapInvariant /\ [][C4_RejectedChangesNothing]_vars

C4_Witness ==
  /\ lastOp.op = "create_npc"
  /\ lastOp.ret = NoId
  /\ MaxNpcs(CONFIG_CACHE) = MaxCap
  /\ Cardinality(DOMAIN ACTIVE_NPCS) = MaxCap

\* C5: after despawn_npc_for_player(p) no tracked NPC has player_id = p,
\* however it was created.
C5_NoNpcOfPlayerLeft ==
  lastOp.op = "leave" =>
    \A id \in DOMAIN ACTIVE_NPCS : ACTIVE_NPCS[id].player_id # lastOp.arg

\* C6: a handle_chat call for an id that despawn_npc_for_player removed
\* puts nothing on the queue, and its job is never dequeued, never reaches
\* the provider and never produces a line.
C6_ChatAfterRemovalDropped ==
  \A m \in afterRemoval :
    /\ m \notin QueuedMessages
    /\ m \notin Range(dequeued)
    /\ m # worker.job.message
    /\ \A i \in DOMAIN said : said[i].message # m

C6_Witness ==
  /\ lastOp.op = "handle_chat"
  /\ lastOp.arg \in removed
  /\ chatCalls \in afterRemoval
  /\ worker.pc = "wait"

C8_FailedReturn ==
  \A r \in {"", None} :
    (worker.pc = "call" /\ worker_call_return(r)) =>
      /\ said' = Append(said, said'[Len(said')])
      /\ said'[Len(said')].npc_id = worker.job.npc_id
      /\ said'[Len(said')].message = worker.job.message
      /\ said'[Len(said')].text = "froze"
      /\ ACTIVE_NPCS' = ACTIVE_NPCS
      /\ appended' = appended
      /\ worker'.pc = "top"

\* C8: when generate_response fails (None or an empty reply), the worker
\* says the call-failed line for the job's NPC and nothing else, changes no
\* history, and is back at the top of its loop, alive.
C8_FailureFallback == [][C8_FailedReturn]_vars

C8_Witness ==
  /\ said # <<>>
  /\ said[Len(said)].text = "froze"
  /\ said[Len(said)].tracked
  /\ worker.pc = "call"

\* C9: shutdown() always gets past its join (the cleanup is enabled while
\* it waits, whatever the worker does), and when it has returned both maps
\* are empty and every NPC ever spawned has had its despawn call.
C9_ShutdownReturns ==
  /\ phase = "joining" => ENABLED shutdown_cleanup
  /\ phase = "stopped" =>
       /\ ACTIVE_NPCS = EmptyDict
       /\ PLAYER_NPCS = EmptyDict
       /\ \A id \in spawnCalls : despawnCalls[id] >= 1

C9_Witness ==
  /\ phase = "stopped"
  /\ worker.pc = "call"
  /\ CHAT_QUEUE # <<>>
  /\ Cardinality(spawnCalls) >= 2

C10_ChatStep ==
  chatCalls' # chatCalls =>
    IF lastOp'.arg \in DOMAIN ACTIVE_NPCS
      THEN /\ Len(CHAT_QUEUE') = Len(CHAT_QUEUE) + 1
           /\ CHAT_QUEUE' = Append(CHAT_QUEUE, CHAT_QUEUE'[Len(CHAT_QUEUE')])
           /\ CHAT_QUEUE'[Len(CHAT_QUEUE')].npc_id = lastOp'.arg
           /\ CHAT_QUEUE'[Len(CHAT_QUEUE')].message = chatCalls'
      ELSE CHAT_QUEUE' = CHAT_QUEUE

C10_QueuedWereTracked ==
  \A i \in DOMAIN CHAT_QUEUE : CHAT_QUEUE[i].npc_id \in spawnCalls

\* C10: a handle_chat call appends its job to the queue when its NPC id is
\* tracked at the call and leaves the queue as it is otherwise; so every
\* job on the queue is for an id that create_npc had made.
C10_EnqueueOnlyTracked == [] C10_QueuedWereTracked /\ [][C10_ChatStep]_vars

C10_Witness ==
  /\ lastOp.op = "handle_chat"
  /\ lastOp.ret = 0
  /\ lastOp.arg \notin spawnCalls
  /\ CHAT_QUEUE # <<>>

\* the order the configuration asks for: the preferred name, lower-cased
\* ("ollama" when none is configured), then the fixed order
C7_Order ==
  LET ai == Get(sel.config, "ai_provider", None)
  IN <<Lower(IF ai \in {None, ""} THEN "ollama" ELSE ai),
       "ollama", "openai", "gemini", "openrouter">>

\* C7: select_provider returns the first available name of the order
\* [preferred, ollama, openai, gemini, openrouter]; it returns None exactly
\* when no provider is available; what it returns is marked available.
C7_SelectFirstAvailable ==
  sel.pc = "out" =>
    LET avail(n) == n \in DOMAIN sel.availability /\ sel.availability[n]
    IN /\ sel.result = None <=> \A n \in ProviderNames : ~avail(n)
       /\ sel.result # None =>
            /\ avail(sel.result)
            /\ \E i \in 1..5 :
                 /\ C7_Order[i] = sel.result
                 /\ \A k \in 1..(i - 1) : ~avail(C7_Order[k])

C7_Witness ==
  /\ sel.pc = "out"
  /\ Get(sel.config, "ai_provider", None) = "gemini"
  /\ \A n \in ProviderNames : sel.availability[n] <=> n = "ollama"
  /\ sel.result = "ollama"


\* C11: handle_chat never blocks and never raises: in whatever state the
\* queue and the worker are (busy, stopped, never started; any queue
\* length) the call returns at once, and it has then either put exactly its
\* one job at the end of the queue or left the queue as it was; it touches
\* neither the worker nor the store.
C11_ChatReturns ==
  phase = "ready" => \A n \in NpcIds, p \in Senders : ENABLED handle_chat(n, p)

C11_ChatOutcome ==
  \A n \in NpcIds, p \in Senders :
    (lastOp'.op = "handle_chat" /\ handle_chat(n, p)) =>
      /\ \/ CHAT_QUEUE' = CHAT_QUEUE
         \/ CHAT_QUEUE' = Append(CHAT_QUEUE, ChatJob(n, p, chatCalls'))
      /\ UNCHANGED <<worker, WORKER_STOP, ACTIVE_NPCS, PLAYER_NPCS, said>>

C12_StaleStep ==
  (dequeued' # dequeued /\ Head(CHAT_QUEUE).npc_id \notin DOMAIN ACTIVE_NPCS)
    => /\ worker' = [pc |-> "top", job |-> NoJob]
       /\ CHAT_QUEUE' = Tail(CHAT_QUEUE)
       /\ UNCHANGED <<said, ACTIVE_NPCS, appended>>

C12_StaleJobDropped == [][C12_StaleStep]_vars

\* the worker took a job of an NPC that a leave had removed while the job
\* was queued, and is idle again with nothing said for it
C12_Witness ==
  /\ dequeued # <<>>
  /\ worker.pc = "top"
  /\ \A i \in DOMAIN said : said[i].message # dequeued[Len(dequeued)]
  /\ removed # {}
  /\ phase = "ready"
  /\ \A i \in DOMAIN CHAT_QUEUE : CHAT_QUEUE[i].npc_id \in DOMAIN ACTIVE_NPCS


\* C13: every job the worker dequeues for an NPC that is still tracked
\* yields exactly one line for that NPC: the apology at once when no
\* provider was selected at startup, else one line when the provider call
\* returns, the reply for a non-empty answer and the call-failed line
\* otherwise; lines are said at no other step, and no job has two.
C13_OneLinePerJob ==
  \A i, j \in DOMAIN said : said[i].message = said[j].message => i = j

C13_SaysOne(job, text) ==
  /\ Len(said') = Len(said) + 1
  /\ SubSeq(said', 1, Len(said)) = said
  /\ said'[Len(said')].npc_id = job.npc_id
  /\ said'[Len(said')].message = job.message
  /\ said'[Len(said')].text = text

C13_DequeueStep ==
  (dequeued' # dequeued /\ Head(CHAT_QUEUE).npc_id \in DOMAIN ACTIVE_NPCS)
    => IF "active_provider" \notin DOMAIN CONFIG_CACHE
         THEN C13_SaysOne(Head(CHAT_QUEUE), "quiet") /\ worker'.pc = "top"
         ELSE said' = said /\ worker' = [pc |-> "call", job |-> Head(CHAT_QUEUE)]

C13_ReturnStep ==
  \A r \in Responses :
    (worker.pc = "call" /\ worker_call_return(r)) =>
      C13_SaysOne(worker.job, IF r \in {None, ""} THEN "froze" ELSE "reply")

C13_SaidOnlyThen ==
  said' # said => dequeued' # dequeued \/ worker.pc = "call"

C13_ExactlyOneLine ==
  /\ [] C13_OneLinePerJob
  /\ [][C13_DequeueStep /\ C13_ReturnStep /\ C13_SaidOnlyThen]_vars

\* one chat was answered with the apology under a start without a provider,
\* another with the model's reply after a restart that found one
C13_Witness ==
  /\ Len(said) = 2
  /\ said[1].text = "quiet"
  /\ said[2].text = "reply"
  /\ said[2].tracked


\* C14: every write to a conversation history is made by the worker: no
\* step of the event thread (init, shutdown, join, create_npc, leave,
\* handle_chat) appends to any NPC's history.
C14_EventThreadStep == worker' = worker \/ worker.pc = "dead"

C14_SingleWriter == [][C14_EventThreadStep => appended' = appended]_vars


\* C15: ids are unique for the life of the process: however create_npc
\* calls on several threads interleave, the ids read off the counter are
\* strictly increasing in the order they are handed out (so none is handed
\* out twice, also not after its NPC was removed by a leave or a shutdown
\* and the mod was initialised again), no two threads hold the same id, and
\* the id a thread inserts is not that of an NPC already tracked.
C15_IdsUnique ==
  /\ Increasing(issued)
  /\ \A i \in DOMAIN issued : issued[i] < NPC_ID_COUNTER \/
        \E t \in Threads : creators[t].pc \in {"load", "store"}
                             /\ creators[t].npc_id = issued[i]
  /\ \A t, u \in Threads :
        (t # u /\ ~At(t, "idle") /\ ~At(u, "idle")
           /\ creators[t].npc_id # NoId) => creators[t].npc_id # creators[u].npc_id
  /\ \A t \in Threads :
        At(t, "insert") => creators[t].npc_id \notin DOMAIN ACTIVE_NPCS \cup removed
  /\ DOMAIN ACTIVE_NPCS \subseteq Range(issued)

\* two threads were inside create_npc at once and hold different ids, after
\* an earlier NPC was removed by a leave
C15_Witness ==
  /\ At(1, "insert") /\ At(2, "insert")
  /\ removed # {}
  /\ Len(issued) = MaxIssued


\* the npcs_per_player the configuration holds, and what the claim's cap
\* becomes when a value below 1 counts as 1
C16_Configured == Get(Get(CONFIG_CACHE, "npc_settings", EmptyDict),
                      "npcs_per_player", 1)

C16_AtLeastOne == IF C16_Configured < 1 THEN 1 ELSE C16_Configured

\* C16 as stated: the number of NPCs indexed for a player never exceeds the
\* configured per-player cap.
C16_WithinConfiguredCap ==
  \A p \in DOMAIN PLAYER_NPCS : Len(PLAYER_NPCS[p]) <= C16_Configured

C16_WithinCap ==
  \A p \in DOMAIN PLAYER_NPCS : Len(PLAYER_NPCS[p]) <= C16_AtLeastOne

C16_JoinAtCap ==
  \A p \in Players :
    (lastOp'.op = "join" /\ Len(Get(PLAYER_NPCS, p, <<>>)) >= C16_AtLeastOne
       /\ on_player_join(p))
      => UNCHANGED <<ACTIVE_NPCS, PLAYER_NPCS, NPC_ID_COUNTER, spawnCalls,
                     greetCalls, appended>>

\* C16, amended: after any sequence of joins and leaves the number of NPCs
\* indexed for a player never exceeds the configured per-player cap, a cap
\* below 1 counting as 1; a join of a player who is at that number changes
\* neither map, takes no id and makes no spawn or greeting call.
C16_PerPlayerCap == [] C16_WithinCap /\ [][C16_JoinAtCap]_vars

\* under npcs_per_player = 0 a player has one NPC and a further join of
\* that player was ignored though max_npcs was not reached
C16_Witness ==
  /\ C16_Configured = 0
  /\ lastOp.op = "join" /\ lastOp.ret = NoId
  /\ Len(Get(PLAYER_NPCS, lastOp.arg, <<>>)) = 1
  /\ Cardinality(DOMAIN ACTIVE_NPCS) < MaxNpcs(CONFIG_CACHE)


\* C17: despawn_npc_for_player is idempotent: called for a player with no
\* entry in PLAYER_NPCS it changes neither map and makes no despawn call,
\* and once it has been called for a player that player has no entry, so a
\* second call in a row is such a call.
C17_NoEntryStep ==
  \A p \in Players :
    (lastOp'.op = "leave" /\ p \notin DOMAIN PLAYER_NPCS
       /\ despawn_npc_for_player(p))
      => UNCHANGED <<ACTIVE_NPCS, PLAYER_NPCS, despawnCalls>>

C17_EntryGone ==
  \A p \in Players :
    (lastOp'.op = "leave" /\ despawn_npc_for_player(p))
      => p \notin DOMAIN PLAYER_NPCS'

C17_LeaveIdempotent == [][C17_NoEntryStep /\ C17_EntryGone]_vars

\* a leave found nothing to remove for a player whose NPC an earlier leave
\* had removed, while another player's NPC is tracked
C17_Witness ==
  /\ lastOp.op = "leave" /\ lastOp.ret = 0
  /\ \E id \in removed : despawnCalls[id] = 1
  /\ \E id \in DOMAIN ACTIVE_NPCS : ACTIVE_NPCS[id].player_id # lastOp.arg
  /\ DOMAIN PLAYER_NPCS # {}


\* C18: at most one worker is alive: an init() (the one caller of
\* _start_worker_thread) that finds a worker still running, as after a
\* shutdown whose join timed out, starts none and leaves the running one and
\* the stop flag as they are; a worker is started only when none is alive.
C18_InitStep ==
  (phase # "ready" /\ phase' = "ready" /\ worker.pc # "dead")
    => UNCHANGED <<worker, WORKER_STOP>>

C18_StartedFromDead ==
  (phase # "ready" /\ phase' = "ready" /\ worker' # worker)
    => worker.pc = "dead" /\ worker' = [pc |-> "top", job |-> NoJob]

C18_OneWorker == [][C18_InitStep /\ C18_StartedFromDead]_vars

\* init() has returned while the worker of the previous start is still in
\* a provider call
C18_Witness ==
  /\ lastOp.op = "init"
  /\ phase = "ready"
  /\ worker.pc = "call"
  /\ WORKER_STOP


\* C19: once the stop flag is set the running worker exits its loop: it
\* does not wait for ever on an empty queue, and when it tests the flag and
\* finds it set it ends, whatever is queued, and takes no job afterwards.
C19_StopSeenStep ==
  (worker.pc = "top" /\ WORKER_STOP /\ worker' # worker)
    => worker'.pc = "dead" /\ CHAT_QUEUE' = CHAT_QUEUE

C19_DeadTakesNone ==
  (worker.pc = "dead" /\ worker'.pc = "dead") => dequeued' = dequeued

C19_WorkerExits ==
  /\ (WORKER_STOP /\ worker.pc # "dead") ~> (worker.pc = "dead")
  /\ [][C19_StopSeenStep /\ C19_DeadTakesNone]_vars

\* the worker has ended on the stop flag with a job still queued
C19_Witness ==
  /\ worker.pc = "dead"
  /\ WORKER_STOP
  /\ CHAT_QUEUE # <<>>
  /\ dequeued # <<>>


\* C20: on a client, or with enabled = false in the configuration, init()
\* returns before the provider detection, stores no selected provider and
\* starts no worker, and no worker exists at any later time.
C20_Off == ~env.is_server \/ ~Get(env.config, "enabled", TRUE)

C20_NoWorker ==
  C20_Off => /\ worker = [pc |-> "dead", job |-> NoJob]
             /\ "active_provider" \notin DOMAIN CONFIG_CACHE
             /\ said = <<>> /\ dequeued = <<>>

C20_InitStep ==
  (C20_Off /\ phase # "ready" /\ phase' = "ready")
    => /\ UNCHANGED <<worker, WORKER_STOP>>
       /\ lastOp' = Op("init", 0, 0)
       /\ CONFIG_CACHE' \in {EmptyDict, env.config}

C20_DisabledInit == [] C20_NoWorker /\ [][C20_InitStep]_vars

\* with enabled = false init() has returned, a player has an NPC and a chat
\* for it is queued, and there is no worker
C20_Witness ==
  /\ env.is_server /\ ~Get(env.config, "enabled", TRUE)
  /\ phase = "ready"
  /\ CONFIG_CACHE = env.config
  /\ CHAT_QUEUE # <<>>
  /\ worker.pc = "dead"


\* C21: the provider selected by init() stays the active one until
\* shutdown(): no step taken while the mod is initialised changes
\* CONFIG_CACHE, and a provider call that fails only says the call-failed
\* line, however many calls have failed before.
C21_FixedWhileReady ==
  (phase = "ready" /\ phase' = "ready") => CONFIG_CACHE' = CONFIG_CACHE

C21_FailedCall ==
  \A r \in Responses :
    (worker.pc = "call" /\ r \in {None, ""} /\ worker_call_return(r))
      => /\ CONFIG_CACHE' = CONFIG_CACHE
         /\ said'[Len(said')].text = "froze"

C21_ProviderFixed == [][C21_FixedWhileReady /\ C21_FailedCall]_vars

\* two provider calls in a row have failed and the provider init() chose
\* is still the active one
C21_Witness ==
  /\ phase = "ready"
  /\ Len(said) = 2
  /\ \A i \in DOMAIN said : said[i].text = "froze"
  /\ ActiveProvider(CONFIG_CACHE) = "ollama"


C22_Once ==
  /\ \A i, j \in DOMAIN dequeued : dequeued[i] = dequeued[j] => i = j
  /\ QueuedMessages \cap Range(dequeued) = {}
  /\ worker.pc = "call" => /\ worker.job.message \in Range(dequeued)
                           /\ \A i \in DOMAIN said :
                                said[i].message # worker.job.message

C22_WorkerStep ==
  (worker' # worker /\ worker.pc # "dead")
    => /\ \/ CHAT_QUEUE' = CHAT_QUEUE
          \/ CHAT_QUEUE # <<>> /\ CHAT_QUEUE' = Tail(CHAT_QUEUE)
       /\ worker'.pc = "call"
            => dequeued' = Append(dequeued, worker'.job.message)
       /\ worker.pc = "call" => worker' = [pc |-> "top", job |-> NoJob]

C22_Drained ==
  \A m \in 1..MaxChats :
    (m \in QueuedMessages)
      ~> (m \in Range(dequeued) \/ WORKER_STOP \/ worker.pc = "dead")

\* C22: a job is dequeued at most once and leads to at most one provider
\* call: the worker never puts a job back, a provider call starts only with
\* the dequeue of its job, and after the call has returned, failed or not,
\* the worker holds no job; while the worker runs and the stop flag is not
\* set every queued job is eventually dequeued.
C22_AtMostOnce == [] C22_Once /\ [][C22_WorkerStep]_vars /\ C22_Drained

\* the first job's provider call has failed, nothing of it is left, and the
\* worker is in the call of the second job
C22_Witness ==
  /\ dequeued = <<1, 2>>
  /\ Len(said) = 1 /\ said[1].text = "froze" /\ said[1].message = 1
  /\ worker.pc = "call" /\ worker.job.message = 2
  /\ CHAT_QUEUE = <<>>


\* a queue capacity below the number of handle_chat calls made
C23_Capacity == MaxChats - 1

\* C23: the queue is bounded: the number of pending jobs never exceeds a
\* fixed capacity, however many handle_chat calls arrive while the worker is
\* busy or stopped (here: a capacity of one job fewer than the calls made).
C23_QueueBounded == Len(CHAT_QUEUE) <= C23_Capacity


\* C24: the worker never says a line for, nor appends to the history of, an
\* NPC that is no longer tracked at that moment, however a leave or a
\* shutdown interleaves with the job: every line the worker has said was
\* said for an NPC tracked at the time.
C24_OnlyTracked == \A i \in DOMAIN said : said[i].tracked


\* r is base with over merged in, later wins: a key absent from over keeps
\* base's value, a scalar in over replaces it, a group in both is merged key
\* by key, and merging over once more changes nothing
C25_Merged(base, over, r) ==
  /\ IsDict(r)
  /\ DOMAIN r.items = DOMAIN base.items \cup DOMAIN over.items
  /\ \A k \in DOMAIN base.items \ DOMAIN over.items : r.items[k] = base.items[k]
  /\ \A k \in DOMAIN over.items :
       LET o == over.items[k] IN
       IF IsDict(o) /\ k \in DOMAIN base.items /\ IsDict(base.items[k])
         THEN LET b == base.items[k].items IN
              /\ IsDict(r.items[k])
              /\ DOMAIN r.items[k].items = DOMAIN b \cup DOMAIN o.items
              /\ \A j \in DOMAIN r.items[k].items :
                   r.items[k].items[j] =
                     IF j \in DOMAIN o.items THEN o.items[j] ELSE b[j]
         ELSE r.items[k] = o
  /\ Dict(merge_dict(r.items, over.items)) = r

\* C25 as stated: the result starts from the built-in defaults, so every
\* recognised setting has a value in it.
C25_DefaultsFirst ==
  cfg.pc \in {"ai_npc", "skin_generator"}
    => {"enabled", "group"} \subseteq DOMAIN cfg.result.items

\* C25, amended: ai_npc's _load_config merges the local override file into
\* the engine-supplied config, skin_generator's merges the engine-supplied
\* config into its built-in defaults and then the override file; each merge
\* is later-wins and recursive, and idempotent.  Only skin_generator's result
\* starts from the defaults.
C25_MergeOrder ==
  /\ cfg.pc = "ai_npc" => cfg.base = cfg.engine
  /\ cfg.pc = "skin_generator"
       => /\ C25_Merged(DEFAULT_CONFIG, cfg.engine, cfg.base)
          /\ \A k \in DOMAIN DEFAULT_CONFIG.items : k \in DOMAIN cfg.result.items
  /\ (cfg.pc \in {"ai_npc", "skin_generator"} /\ IsDict(cfg.file))
       => C25_Merged(cfg.base, cfg.file, cfg.result)
  /\ (cfg.pc \in {"ai_npc", "skin_generator"} /\ cfg.file = NoFile)
       => cfg.result = cfg.base

\* ai_npc's _load_config has merged an override that replaces a scalar and
\* adds a key to a group of the engine-supplied config
C25_Witness ==
  /\ cfg.pc = "ai_npc"
  /\ IsDict(cfg.file)
  /\ DOMAIN cfg.engine.items = {"enabled", "group"}
  /\ DOMAIN cfg.file.items = {"enabled", "group"}
  /\ cfg.engine.items["enabled"] = Scalar(0)
  /\ cfg.file.items["enabled"] = Scalar(1)
  /\ cfg.engine.items["group"] = Dict([j \in {"x"} |-> Scalar(0)])
  /\ cfg.file.items["group"] = Dict([j \in {"y"} |-> Scalar(1)])
  /\ cfg.result.items["group"] =
       Dict([j \in {"x", "y"} |-> IF j = "x" THEN Scalar(0) ELSE Scalar(1)])

\* C26: a malformed config.json does not abort the start: _load_config
\* raises nothing and returns exactly what it held before it looked at the
\* file, with nothing of the file in it, so init() goes on with that
\* configuration.
C26_MalformedIgnored ==
  /\ cfg.pc \in {"ai_npc", "skin_generator"} => cfg.result # Raised
  /\ (cfg.pc \in {"ai_npc", "skin_generator"} /\ ~IsDict(cfg.file))
       => cfg.result = cfg.base /\ IsDict(cfg.result)

\* ai_npc's _load_config has returned the engine-supplied configuration
\* though config.json was malformed
C26_Witness ==
  /\ cfg.pc = "ai_npc"
  /\ cfg.file = Malformed
  /\ cfg.result = cfg.engine
  /\ DOMAIN cfg.engine.items = {"enabled", "group"}


\* every id in the index is tracked with the listing player as owner, and
\* is listed once
C27_IndexSound ==
  /\ \A p \in DOMAIN PLAYER_NPCS : \A i \in DOMAIN PLAYER_NPCS[p] :
       /\ PLAYER_NPCS[p][i] \in DOMAIN ACTIVE_NPCS
       /\ ACTIVE_NPCS[PLAYER_NPCS[p][i]].player_id = p
       /\ \A q \in DOMAIN PLAYER_NPCS : \A j \in DOMAIN PLAYER_NPCS[q] :
            PLAYER_NPCS[q][j] = PLAYER_NPCS[p][i] => q = p /\ j = i

\* C27: after any sequence of join, leave, create_npc and shutdown the two
\* maps agree: every id in the player index is a tracked NPC owned by that
\* player, no id is listed twice or under two players, and every tracked
\* NPC is listed under its owner.
C27_MapsConsistent ==
  /\ C27_IndexSound
  /\ \A id \in DOMAIN ACTIVE_NPCS :
       id \in Range(Get(PLAYER_NPCS, ACTIVE_NPCS[id].player_id, <<>>))


\* no operation is under way: the event thread is between calls and no
\* thread is inside a join
C28_Quiet ==
  /\ phase \in {"loaded", "ready", "stopped"}
  /\ \A t \in Threads : At(t, "idle")

\* C28: the engine's spawn and despawn calls stay balanced with the store,
\* also when a join runs beside shutdown(): after every completed operation
\* the ids spawned and not yet despawned are the tracked ids, and no id is
\* despawned twice or without a spawn.
C28_SpawnBalanced ==
  /\ \A id \in NpcIds : /\ despawnCalls[id] <= 1
                         /\ despawnCalls[id] > 0 => id \in spawnCalls
  /\ C28_Quiet
       => {id \in spawnCalls : despawnCalls[id] = 0} = DOMAIN ACTIVE_NPCS


\* C29: the dispatcher can be restarted: once init() has returned after a
\* shutdown(), also one whose join timed out on a worker inside a provider
\* call, a worker is running and the stop flag is clear (so that later jobs
\* are processed) for as long as the mod stays initialised.
C29_RestartLeavesWorker ==
  (phase = "ready" /\ env.is_server /\ Get(env.config, "enabled", TRUE))
    => worker.pc # "dead" /\ ~WORKER_STOP

\* C30: when init() returned early, on a client or with enabled = false, a
\* later join creates no NPC: the player index stays empty, the join
\* returns without an id, and nothing is spawned or greeted by it.
C30_JoinIgnoredWhenOff ==
  (~env.is_server \/ ~Get(env.config, "enabled", TRUE))
    => /\ PLAYER_NPCS = EmptyDict
       /\ lastOp.op = "join" => lastOp.ret = NoId

====
